---- MODULE Spec2Model ----
(***************************************************************************)
(* The stalk-market predictor of src/Code.ts: the estimate algebra         *)
(* (priceRange, multiplyEstimates, mergePredictions), the rate chains      *)
(* (generateRates), the four branch builders, the four pattern enumerators *)
(* and the part of updateSheet that sanitises the input, merges the four   *)
(* patterns and normalises the result.                                     *)
(*                                                                         *)
(* Numbers.  The source computes in IEEE doubles; the model computes in    *)
(* exact arithmetic, so a statement "sums to 1" of the model is the        *)
(* source's "sums to 1 within floating tolerance".                         *)
(*  - A price is an integer.  NaN ("unknown") is 0: line 141 turns a cell  *)
(*    holding 0 into NaN, so 0 is never a known price.                     *)
(*  - A rate or a multiplier (0.9, 1.4, a spike rate, the price field of   *)
(*    an estimate of a rate chain) is held in hundredths: 0.85 is 85, and  *)
(*    rateInterval 0.01 is 1.  Math.ceil(rate * price) is the exact        *)
(*    ceiling of rate * price / 100.  Two rates the source reaches by      *)
(*    different subtractions are one Map key here, as they are in exact    *)
(*    arithmetic; in doubles they may differ in the last bit.              *)
(*  - A probability is an exact rational.  The denominators of one         *)
(*    prediction have a least common multiple far beyond 32 bits, so the   *)
(*    model carries each probability as its residue in the prime field     *)
(*    Z/P: the map n/d |-> n * d^-1 mod P is a ring homomorphism on the    *)
(*    rationals whose denominator is prime to P, hence every sum, product  *)
(*    and quotient below is the residue of the exact value and every       *)
(*    equation between exact probabilities holds between their residues.   *)
(*    (Two different exact values share a residue only when P divides the  *)
(*    numerator of their difference.)                                      *)
(*  - Math.floor and Math.ceil of multiplier * price are the exact floor   *)
(*    and ceiling.  In doubles a product such as 1.4 * 90 or               *)
(*    1.7000000000000002 * 100 falls just beside the integer, which moves  *)
(*    that one bound of a range by 1; no property below depends on where   *)
(*    exactly such a bound lies.                                           *)
(***************************************************************************)
EXTENDS Integers, Sequences, FiniteSets, TLC

VARIABLES
  pc,          \* where updateSheet stands, or which function was called
  buyCell,     \* the sheet's buy-price cell, as Number() reads it
  sellCells,   \* the sheet's sell cells: sellCells[row][day], rows AM and PM
  sellPrices,  \* updateSheet's sellPrices, the given_prices of the generators
  patterns,    \* the results of the pattern enumerators called so far
  prediction,  \* updateSheet's prediction
  call,        \* the arguments of a function called on its own
  result       \* what that call returned

vars == <<pc, buyCell, sellCells, sellPrices, patterns, prediction, call, result>>

----------------------------------------------------------------------------
(* number: prices, rates and probabilities *)

P == 46337

NaN == 0

isNaN(x) == x = NaN

Infinity == "Infinity"

Add(a, b) == (a + b) % P

Mul(a, b) == (a * b) % P

RECURSIVE Pow(_, _)
Pow(a, n) ==
  IF n = 0 THEN 1
  ELSE LET h == Pow(a, n \div 2)
           s == (h * h) % P
       IN IF n % 2 = 1 THEN (s * a) % P ELSE s

\* 1.0 / a
Recip(a) == IF a % P = 0 THEN Infinity ELSE Pow(a % P, P - 2)

\* a / b
Div(a, b) == Mul(a, Recip(b))

\* the decimal literal n / d, as 0.346 = 346 / 1000
Lit(n, d) == Div(n % P, d)

\* Math.floor(a / 100) and Math.ceil(a / 100) of a product in hundredths
Floor100(a) == a \div 100

\* Math.floor in place of Math.ceil
Ceil100Down(a) == a \div 100

Ceil100(a) == -((-a) \div 100)

(* Loops.  A loop over the entries lo..hi of an array is a recursion that   *)
(* takes them in the source's order.  It recurses on the two halves of      *)
(* lo..hi, and not entry by entry, and it tests Done(left) before it goes   *)
(* on with the right half, only so that the model checker evaluates the     *)
(* first half before the second on a shallow stack; Done is always true.    *)

Done(v) == v = v

RECURSIVE SumSeq(_, _, _, _)
SumSeq(acc, s, lo, hi) ==
  IF lo > hi THEN acc
  ELSE IF lo = hi THEN Add(acc, s[lo].probability)
  ELSE LET left == SumSeq(acc, s, lo, (lo + hi) \div 2)
       IN IF Done(left) THEN SumSeq(left, s, ((lo + hi) \div 2) + 1, hi) ELSE acc

\* s.map(p => p.probability).reduce((a, b) => a + b, 0)
Sum(s) == SumSeq(0, s, 1, Len(s))

Prices(s) == {s[i].price : i \in 1..Len(s)}

\* Math.min(...s.map(e => e.price)) and Math.max(...); of an empty s they are
\* +Infinity and -Infinity, which no branch builder reaches
MinPrice(s) ==
  IF Len(s) = 0 THEN Infinity ELSE CHOOSE m \in Prices(s) : \A q \in Prices(s) : m <= q

MaxPrice(s) ==
  IF Len(s) = 0 THEN Infinity ELSE CHOOSE m \in Prices(s) : \A q \in Prices(s) : m >= q

----------------------------------------------------------------------------
(* Map<number, Estimate>: the keys in insertion order and the value of each *)

EmptyMap == [order |-> <<>>, val |-> <<>>]

\* "e.probability = ..." in place of "e.probability += ...": the last probability
\* put under a key replaces what the key held
AccumulateLast(m, price, p) ==
  IF price \in DOMAIN m.val
    THEN [m EXCEPT !.val[price] = p]
    ELSE [order |-> Append(m.order, price), val |-> m.val @@ (price :> p)]

\* let e = m.get(price); if (!e) { e = {price, probability: 0}; m.set(price, e) }
\* e.probability += p
Accumulate(m, price, p) ==
  IF price \in DOMAIN m.val
    THEN [m EXCEPT !.val[price] = Add(@, p)]
    ELSE [order |-> Append(m.order, price), val |-> m.val @@ (price :> Add(0, p))]

\* Array.from(m.values())
Values(m) ==
  [i \in 1..Len(m.order) |-> [price |-> m.order[i], probability |-> m.val[m.order[i]]]]

----------------------------------------------------------------------------
(* Estimate algebra *)

\* "probability" in place of "probability / length": every price of the range
\* is given the whole probability
priceRangeUndivided(min, max, probability) ==
  [i \in 1..(IF max >= min THEN max - min + 1 ELSE 0) |-> [price |-> min + i - 1, probability |-> probability]]

\* "p < max" in place of "p <= max": the range without its last price
priceRangeExclusive(min, max, probability) ==
  LET length == max - min + 1
      each == Div(probability, length)
  IN [i \in 1..(IF max > min THEN length - 1 ELSE 0) |-> [price |-> min + i - 1, probability |-> each]]

priceRange(min, max, probability) ==
  LET length == max - min + 1
      each == Div(probability, length)
  IN [i \in 1..(IF max >= min THEN length ELSE 0) |->
        [price |-> min + i - 1, probability |-> each]]

RECURSIVE MultiplyInner(_, _, _, _, _)
\* for (const bb of b) { ... }, the entries lo..hi of b, for one aa
MultiplyInner(ret, aa, b, lo, hi) ==
  IF lo > hi THEN ret
  ELSE IF lo = hi
    THEN Accumulate(ret, Ceil100(aa.price * b[lo].price),
                    Mul(aa.probability, b[lo].probability))
  ELSE LET left == MultiplyInner(ret, aa, b, lo, (lo + hi) \div 2)
       IN IF Done(left) THEN MultiplyInner(left, aa, b, ((lo + hi) \div 2) + 1, hi) ELSE ret

RECURSIVE MultiplyOuter(_, _, _, _, _)
\* for (const aa of a) { ... }, the entries lo..hi of a
MultiplyOuter(ret, a, b, lo, hi) ==
  IF lo > hi THEN ret
  ELSE IF lo = hi THEN MultiplyInner(ret, a[lo], b, 1, Len(b))
  ELSE LET left == MultiplyOuter(ret, a, b, lo, (lo + hi) \div 2)
       IN IF Done(left) THEN MultiplyOuter(left, a, b, ((lo + hi) \div 2) + 1, hi) ELSE ret

\* a: a distribution of rates (prices in hundredths); b: a distribution of prices
multiplyEstimates(a, b) == Values(MultiplyOuter(EmptyMap, a, b, 1, Len(a)))

----------------------------------------------------------------------------
(* Rate chains *)

RECURSIVE RateChanges(_, _, _, _, _)
\* for (rateChange = incrMin; rateChange <= incrMax + rateInterval/10; rateChange += rateInterval)
RateChanges(period, priorRate, rateChange, incrMax, changeProbability) ==
  IF rateChange > incrMax THEN period
  ELSE LET next == Accumulate(period, priorRate.price - rateChange,
                              Mul(priorRate.probability, changeProbability))
       IN IF Done(next)
            THEN RateChanges(next, priorRate, rateChange + 1, incrMax, changeProbability)
            ELSE period

RECURSIVE RatePeriod(_, _, _, _, _, _, _)
\* for (let priorRate of rates[i]) { ... }, the entries lo..hi of rates[i]
RatePeriod(period, prior, lo, hi, incrMin, incrMax, changeProbability) ==
  IF lo > hi THEN period
  ELSE IF lo = hi THEN RateChanges(period, prior[lo], incrMin, incrMax, changeProbability)
  ELSE LET left == RatePeriod(period, prior, lo, (lo + hi) \div 2,
                              incrMin, incrMax, changeProbability)
       IN IF Done(left)
            THEN RatePeriod(left, prior, ((lo + hi) \div 2) + 1, hi,
                            incrMin, incrMax, changeProbability)
            ELSE period

RECURSIVE RateDays(_, _, _, _, _)
\* for (let i = 0; i < length - 1; i++) rates[i + 1] = ...; rates holds days 0..i
RateDays(rates, length, incrMin, incrMax, changeProbability) ==
  IF Len(rates) >= length THEN rates
  ELSE LET next == Append(rates, Values(RatePeriod(EmptyMap, rates[Len(rates)],
                                                   1, Len(rates[Len(rates)]),
                                                   incrMin, incrMax, changeProbability)))
       IN IF Done(next) THEN RateDays(next, length, incrMin, incrMax, changeProbability)
          ELSE rates

\* "startingRate < startMax" in place of "startingRate <= startMax + rateInterval / 10":
\* day 0 without the rate startMax
generateRatesExclusive(startMin, startMax, incrMin, incrMax, length) ==
  IF length <= 0 THEN <<>>
  ELSE LET initialProbability == Recip(startMax - startMin + 1)
           changeProbability == Recip(incrMax - incrMin + 1)
           day0 == [i \in 1..(IF startMax > startMin THEN startMax - startMin ELSE 0) |->
                      [price |-> startMin + i - 1, probability |-> initialProbability]]
       IN RateDays(<<day0>>, length, incrMin, incrMax, changeProbability)

generateRates(startMin, startMax, incrMin, incrMax, length) ==
  IF length <= 0 THEN <<>>
  ELSE LET initialProbability == Recip(startMax - startMin + 1)
           changeProbability == Recip(incrMax - incrMin + 1)
           day0 == [i \in 1..(IF startMax >= startMin THEN startMax - startMin + 1 ELSE 0) |->
                      [price |-> startMin + i - 1, probability |-> initialProbability]]
       IN RateDays(<<day0>>, length, incrMin, incrMax, changeProbability)

----------------------------------------------------------------------------
(* Predictions *)

\* the value a branch builder returns for a rejected branch
undefined == [undefined |-> TRUE]

\* what a thrown Error leaves in place of a result
Thrown == [error |-> "Phase lengths don't add up"]

IsPrediction(p) == "estimates" \in DOMAIN p

IsThrown(p) == "error" \in DOMAIN p

EmptyPrediction == [estimates |-> <<>>, trends |-> EmptyMap]

RECURSIVE MergePrices(_, _, _, _)
\* for (let price of prediction.estimates[timePeriod]) { ... }, the entries lo..hi
MergePrices(m, prices, lo, hi) ==
  IF lo > hi THEN m
  ELSE IF lo = hi THEN Accumulate(m, prices[lo].price, prices[lo].probability)
  ELSE LET left == MergePrices(m, prices, lo, (lo + hi) \div 2)
       IN IF Done(left) THEN MergePrices(left, prices, ((lo + hi) \div 2) + 1, hi) ELSE m

\* the loop over timePeriod without "if (!estimates[timePeriod]) estimates[timePeriod]
\* = new Map()": no slot is added to the ones the result already has
MergePeriodsExisting(estimates, pred) ==
  [t \in 1..Len(estimates) |->
     IF t > Len(pred.estimates) THEN estimates[t]
     ELSE MergePrices(estimates[t], pred.estimates[t], 1, Len(pred.estimates[t]))]

\* for (let timePeriod = 0; timePeriod < prediction.estimates.length; timePeriod++)
MergePeriods(estimates, pred) ==
  [t \in 1..(IF Len(pred.estimates) > Len(estimates)
               THEN Len(pred.estimates) ELSE Len(estimates)) |->
     IF t > Len(pred.estimates) THEN estimates[t]
     ELSE MergePrices(IF t > Len(estimates) THEN EmptyMap ELSE estimates[t],
                      pred.estimates[t], 1, Len(pred.estimates[t]))]

RECURSIVE MergeTrends(_, _, _)
\* for (let trend of pred.trends) { ... }, from index k on
MergeTrends(m, trends, k) ==
  IF k > Len(trends) THEN m
  ELSE MergeTrends(Accumulate(m, trends[k].name, trends[k].probability), trends, k + 1)

\* one turn of the loop without lines 677-684: the trends of the branch are dropped
MergeOneEstimatesOnly(acc, pred) ==
  IF ~IsPrediction(pred) THEN acc
  ELSE [estimates |-> MergePeriods(acc.estimates, pred), trends |-> acc.trends]

\* one turn of "for (let prediction of predictions)"
MergeOne(acc, pred) ==
  IF ~IsPrediction(pred) THEN acc
  ELSE [estimates |-> MergePeriods(acc.estimates, pred),
        trends |-> MergeTrends(acc.trends, pred.trends, 1)]

RECURSIVE MergeFrom(_, _, _, _)
\* for (let prediction of predictions) { ... }, the entries lo..hi
MergeFrom(acc, predictions, lo, hi) ==
  IF lo > hi THEN acc
  ELSE IF lo = hi THEN MergeOne(acc, predictions[lo])
  ELSE LET left == MergeFrom(acc, predictions, lo, (lo + hi) \div 2)
       IN IF Done(left) THEN MergeFrom(left, predictions, ((lo + hi) \div 2) + 1, hi) ELSE acc

mergePredictions(predictions) ==
  LET acc == MergeFrom(EmptyPrediction, predictions, 1, Len(predictions))
  IN [estimates |-> [t \in 1..Len(acc.estimates) |-> Values(acc.estimates[t])],
      trends |-> [i \in 1..Len(acc.trends.order) |->
                    [name |-> acc.trends.order[i],
                     probability |-> acc.trends.val[acc.trends.order[i]]]]]

----------------------------------------------------------------------------
(* Branch builders: one grid cell of one pattern *)

\* given_prices[i], i counted from 0 as in the source; past the end it is
\* undefined, which isNaN takes for unknown
Given(given_prices, i) == IF i + 1 \in DOMAIN given_prices THEN given_prices[i + 1] ELSE NaN

\* lines 380-384 with the test against max_pred left out
OutOfRangeBelowOnly(given, min_pred, max_pred) ==
  ~isNaN(given) /\ given < min_pred

\* lines 380-384 without the isNaN test, so that an unknown price is out of range
OutOfRangeUnknown(given, min_pred, max_pred) ==
  given < min_pred \/ given > max_pred

\* if (!isNaN(given_prices[i])) { if (given_prices[i] < min_pred || given_prices[i] > max_pred) return }
OutOfRange(given, min_pred, max_pred) ==
  ~isNaN(given) /\ (given < min_pred \/ given > max_pred)

\* a range slot without "min_pred = given_prices[i]; max_pred = given_prices[i]":
\* the range stays as computed when the price is known
RangeSlotUncollapsed(given, min_pred, max_pred, probability) ==
  priceRange(min_pred, max_pred, probability)

\* a slot whose candidate prices are min_pred..max_pred
RangeSlot(given, min_pred, max_pred, probability) ==
  IF ~isNaN(given) THEN priceRange(given, given, probability)
  ELSE priceRange(min_pred, max_pred, probability)

\* a rate slot that keeps the chain's estimates when the price is known
RateSlotUncollapsed(given, estimates, probability) == estimates

\* a slot whose candidate prices are a rate chain's day applied to the buy price
RateSlot(given, estimates, probability) ==
  IF ~isNaN(given) THEN priceRange(given, given, probability) ELSE estimates

Trend(name, probability) == <<[name |-> name, probability |-> probability]>>

generatePatternZeroWithLengths(given_prices, high_phase_1_len, dec_phase_1_len, high_phase_2_len, dec_phase_2_len, high_phase_3_len, dec_phase_1_rates, dec_phase_2_rates, probability) ==
  LET dec1 == 2 + high_phase_1_len
      high2 == dec1 + dec_phase_1_len
      dec2 == high2 + high_phase_2_len
      high3 == dec2 + dec_phase_2_len
      first == priceRange(given_prices[1], given_prices[2], probability)
      min_pred == Floor100(90 * given_prices[1])
      max_pred == Ceil100(140 * given_prices[2])
      IsDec(i) == (dec1 <= i /\ i < high2) \/ (dec2 <= i /\ i < high3)
      estimates(i) ==
        IF i < high2 THEN multiplyEstimates(dec_phase_1_rates[i - dec1 + 1], first)
        ELSE multiplyEstimates(dec_phase_2_rates[i - dec2 + 1], first)
      Rejects(i) ==
        IF IsDec(i)
          THEN LET e == estimates(i)
               IN OutOfRange(Given(given_prices, i), MinPrice(e), MaxPrice(e))
          ELSE OutOfRange(Given(given_prices, i), min_pred, max_pred)
      Slot(i) ==
        IF i < 2 THEN first
        ELSE IF IsDec(i) THEN RateSlot(Given(given_prices, i), estimates(i), probability)
        ELSE RangeSlot(Given(given_prices, i), min_pred, max_pred, probability)
  IN IF \E i \in 2..(high3 - 1) : Rejects(i) THEN undefined
     ELSE IF high3 + high_phase_3_len # 14 THEN Thrown
     ELSE IF \E i \in high3..13 : Rejects(i) THEN undefined
     ELSE [estimates |-> [k \in 1..(IF high3 > 14 THEN high3 ELSE 14) |-> Slot(k - 1)],
           trends |-> Trend("Random", probability)]

min_randoms == <<90, 140, 200, 140, 90, 40, 40, 40, 40, 40, 40>>

max_randoms == <<140, 200, 600, 200, 140, 90, 90, 90, 90, 90, 90>>

generatePatternOneWithPeak(given_prices, peak_start, rates, probability) ==
  LET first == priceRange(given_prices[1], given_prices[2], probability)
      estimates(i) == multiplyEstimates(rates[i - 1], first)
      min_pred(i) == Floor100(min_randoms[i - peak_start + 1] * given_prices[1])
      max_pred(i) == Ceil100(max_randoms[i - peak_start + 1] * given_prices[2])
      Rejects(i) ==
        IF i < peak_start
          THEN LET e == estimates(i)
               IN OutOfRange(Given(given_prices, i), MinPrice(e), MaxPrice(e))
          ELSE OutOfRange(Given(given_prices, i), min_pred(i), max_pred(i))
      Slot(i) ==
        IF i < 2 THEN first
        ELSE IF i < peak_start THEN RateSlot(Given(given_prices, i), estimates(i), probability)
        ELSE RangeSlot(Given(given_prices, i), min_pred(i), max_pred(i), probability)
  IN IF \E i \in 2..13 : Rejects(i) THEN undefined
     ELSE [estimates |-> [k \in 1..(IF peak_start > 14 THEN peak_start ELSE 14) |-> Slot(k - 1)],
           trends |-> Trend("Big Spike", probability)]

generatePatternTwoWithRates(given_prices, rates, probability) ==
  LET first == priceRange(given_prices[1], given_prices[2], probability)
      estimates(i) == multiplyEstimates(rates[i - 1], first)
      Rejects(i) ==
        LET e == estimates(i)
        IN OutOfRange(Given(given_prices, i), MinPrice(e), MaxPrice(e))
      Slot(i) ==
        IF i < 2 THEN first ELSE RateSlot(Given(given_prices, i), estimates(i), probability)
  IN IF \E i \in 2..13 : Rejects(i) THEN undefined
     ELSE [estimates |-> [k \in 1..14 |-> Slot(k - 1)],
           trends |-> Trend("Decreasing", probability)]

generatePatternThreeWithPeak(given_prices, peak_start, spike_rate, dec_rates_1, dec_rates_2, probability) ==
  LET first == priceRange(given_prices[1], given_prices[2], probability)
      IsDec(i) == i < peak_start \/ i >= peak_start + 5
      estimates(i) ==
        IF i < peak_start THEN multiplyEstimates(dec_rates_1[i - 1], first)
        ELSE multiplyEstimates(dec_rates_2[i - peak_start - 4], first)
      min_pred(i) ==
        IF i < peak_start + 2 THEN Floor100(90 * given_prices[1])
        ELSE Floor100((IF i = peak_start + 3 THEN spike_rate ELSE 140) * given_prices[1]) - 1
      max_pred(i) ==
        IF i < peak_start + 2 THEN Ceil100(140 * given_prices[2])
        ELSE Ceil100(spike_rate * given_prices[2])
      Rejects(i) ==
        IF IsDec(i)
          THEN LET e == estimates(i)
               IN OutOfRange(Given(given_prices, i), MinPrice(e), MaxPrice(e))
          ELSE OutOfRange(Given(given_prices, i), min_pred(i), max_pred(i))
      Slot(i) ==
        IF i < 2 THEN first
        ELSE IF IsDec(i) THEN RateSlot(Given(given_prices, i), estimates(i), probability)
        ELSE RangeSlot(Given(given_prices, i), min_pred(i), max_pred(i), probability)
      last == IF peak_start + 5 > 14 THEN peak_start + 5 ELSE 14
  IN IF \E i \in 2..(last - 1) : Rejects(i) THEN undefined
     ELSE [estimates |-> [k \in 1..last |-> Slot(k - 1)],
           trends |-> Trend("Small Spike", probability)]

----------------------------------------------------------------------------
(* Pattern enumerators: every grid cell of a pattern, merged *)

RECURSIVE Concat(_, _)
\* the predictions pushed by the turns n.. of a loop, in order
Concat(lists, n) == IF n > Len(lists) THEN <<>> ELSE lists[n] \o Concat(lists, n + 1)

\* a thrown Error ends the enumerator before it merges
MergeUnlessThrown(predictions) ==
  IF \E n \in 1..Len(predictions) : IsThrown(predictions[n]) THEN Thrown
  ELSE mergePredictions(predictions)

\* the prior of generatePatternZero divided by the number of turns of its loops
ZeroProbabilityEven(high_phase_1_len) == Div(Lit(346, 1000), 56)

\* lines 288-298: probability1 .. probability4 of generatePatternZero
ZeroProbability(high_phase_1_len) ==
  LET probability1 == Lit(346, 1000)
      probability2 == Div(probability1, 2)
      probability3 == Div(probability2, 7)
  IN Div(probability3, 7 - high_phase_1_len)

\* lines 293-294: dec_rates_1 and dec_rates_2 of generatePatternZero
ZeroRates(dec_phase_len) == generateRates(60, 80, 4, 10, dec_phase_len)

\* a turn of the innermost loop that passes a second high phase one slot short
ZeroCellShort(given_prices, dec_phase_1_len, high_phase_1_len, high_phase_3_len, dec_rates_1, dec_rates_2) ==
  generatePatternZeroWithLengths(
    given_prices, high_phase_1_len, dec_phase_1_len,
    6 - high_phase_1_len - high_phase_3_len, 5 - dec_phase_1_len, high_phase_3_len,
    dec_rates_1, dec_rates_2, ZeroProbability(high_phase_1_len))

\* lines 300-312: the call of one turn of the innermost loop
ZeroCell(given_prices, dec_phase_1_len, high_phase_1_len, high_phase_3_len, dec_rates_1, dec_rates_2) ==
  generatePatternZeroWithLengths(
    given_prices, high_phase_1_len, dec_phase_1_len,
    7 - high_phase_1_len - high_phase_3_len, 5 - dec_phase_1_len, high_phase_3_len,
    dec_rates_1, dec_rates_2, ZeroProbability(high_phase_1_len))

\* the array predictions of generatePatternZero when its loops end
ZeroPredictions(given_prices) ==
  LET ForDecPhase1(dec_phase_1_len) ==
        LET dec_rates_1 == ZeroRates(dec_phase_1_len)
            dec_rates_2 == ZeroRates(5 - dec_phase_1_len)
            ForHighPhase1(high_phase_1_len) ==
              [k \in 1..(7 - high_phase_1_len) |->
                 ZeroCell(given_prices, dec_phase_1_len, high_phase_1_len, k - 1,
                          dec_rates_1, dec_rates_2)]
        IN Concat([h \in 1..7 |-> ForHighPhase1(h - 1)], 1)
  IN Concat([d \in 1..2 |-> ForDecPhase1(d + 1)], 1)

generatePatternZero(given_prices) == MergeUnlessThrown(ZeroPredictions(given_prices))

\* lines 322-325: probability2 of generatePatternOne
OneProbability == Div(Lit(248, 1000), 7)

\* line 326
OneRates(peak_start) == generateRates(85, 90, 3, 5, peak_start - 2)

\* the array predictions of generatePatternOne when its loop ends
OnePredictions(given_prices) ==
  [k \in 1..7 |->
     generatePatternOneWithPeak(given_prices, k + 2, OneRates(k + 2), OneProbability)]

generatePatternOne(given_prices) == mergePredictions(OnePredictions(given_prices))

\* line 335
TwoProbability == Lit(1475, 10000)

\* line 337
TwoRates == generateRates(85, 90, 3, 5, 12)

generatePatternTwo(given_prices) ==
  generatePatternTwoWithRates(given_prices, TwoRates, TwoProbability)

\* lines 345-353: probability3 of generatePatternThree
ThreeProbability == Div(Div(Lit(2585, 10000), 8), 61)

\* lines 349-350: dec_rates_1 and dec_rates_2 of generatePatternThree
ThreeRates(length) == generateRates(40, 90, 3, 5, length)

\* the array predictions of generatePatternThree when its loops end; spikeRate
\* runs from 1.4 to 2.0 in steps of 0.01
ThreePredictions(given_prices) ==
  LET ForPeak(peak_start) ==
        LET dec_rates_1 == ThreeRates(peak_start - 2)
            dec_rates_2 == ThreeRates(9 - peak_start)
        IN [k \in 1..61 |->
              generatePatternThreeWithPeak(given_prices, peak_start, 139 + k,
                                           dec_rates_1, dec_rates_2, ThreeProbability)]
  IN Concat([k \in 1..8 |-> ForPeak(k + 1)], 1)

generatePatternThree(given_prices) == mergePredictions(ThreePredictions(given_prices))

----------------------------------------------------------------------------
(* updateSheet, lines 130-158: read the sheet, predict, normalise *)

None == "none"

\* "<= 90" and ">= 110" in place of "< 90" and "> 110": the two ends are refused
SanitizeBuyPriceExclusive(buyPrice) == IF buyPrice <= 90 \/ buyPrice >= 110 THEN 0 ELSE buyPrice

\* buyPrice = buyPrice < 90 || buyPrice > 110 ? null : buyPrice
\* (0 stands for null and for NaN: "buyPrice || 90" takes both for missing)
SanitizeBuyPrice(buyPrice) == IF buyPrice < 90 \/ buyPrice > 110 THEN 0 ELSE buyPrice

\* a || b, on numbers
OrElse(a, b) == IF a = 0 THEN b ELSE a

\* Number(sellValues[row][col] || 'NaN') || NaN
SellPrice(cell) == OrElse(cell, NaN)

\* lines 135-143: sellPrices = [buyPrice || 90, buyPrice || 110] and then, day by
\* day, the AM and the PM cell
ReadPrices(buy, sells) ==
  LET buyPrice == SanitizeBuyPrice(buy)
  IN [k \in 1..14 |->
        IF k = 1 THEN OrElse(buyPrice, 90)
        ELSE IF k = 2 THEN OrElse(buyPrice, 110)
        ELSE SellPrice(sells[((k - 3) % 2) + 1][((k - 3) \div 2) + 1])]

\* lines 149-154 with the number of entries in place of the sum of their
\* probabilities
NormalizeEstimatesByCount(estimates) ==
  [t \in 1..Len(estimates) |->
     LET mul == Recip(Len(estimates[t]))
     IN [i \in 1..Len(estimates[t]) |->
           [estimates[t][i] EXCEPT !.probability = Mul(@, mul)]]]

\* lines 149-154: for each estimates, mul = 1.0 / sum; e.probability *= mul
NormalizeEstimates(estimates) ==
  [t \in 1..Len(estimates) |->
     LET mul == Recip(Sum(estimates[t]))
     IN [i \in 1..Len(estimates[t]) |->
           [estimates[t][i] EXCEPT !.probability = Mul(@, mul)]]]

\* lines 155-158 with the number of trends in place of the sum of their weights
NormalizeTrendsByCount(trends) ==
  LET mul == Recip(Len(trends))
  IN [i \in 1..Len(trends) |-> [trends[i] EXCEPT !.probability = Mul(@, mul)]]

\* lines 155-158
NormalizeTrends(trends) ==
  LET mul == Recip(Sum(trends))
  IN [i \in 1..Len(trends) |-> [trends[i] EXCEPT !.probability = Mul(@, mul)]]

ReadSheet ==
  /\ pc = "read"
  /\ sellPrices' = ReadPrices(buyCell, sellCells)
  /\ pc' = "zero"
  /\ UNCHANGED <<buyCell, sellCells, patterns, prediction, call, result>>

GenerateZero ==
  /\ pc = "zero"
  /\ patterns' = Append(patterns, generatePatternZero(sellPrices))
  /\ pc' = "one"
  /\ UNCHANGED <<buyCell, sellCells, sellPrices, prediction, call, result>>

GenerateOne ==
  /\ pc = "one"
  /\ patterns' = IF IsThrown(patterns[1]) THEN patterns
                 ELSE Append(patterns, generatePatternOne(sellPrices))
  /\ pc' = IF IsThrown(patterns[1]) THEN "thrown" ELSE "two"
  /\ UNCHANGED <<buyCell, sellCells, sellPrices, prediction, call, result>>

GenerateTwo ==
  /\ pc = "two"
  /\ patterns' = Append(patterns, generatePatternTwo(sellPrices))
  /\ pc' = "three"
  /\ UNCHANGED <<buyCell, sellCells, sellPrices, prediction, call, result>>

GenerateThree ==
  /\ pc = "three"
  /\ patterns' = Append(patterns, generatePatternThree(sellPrices))
  /\ pc' = "merge"
  /\ UNCHANGED <<buyCell, sellCells, sellPrices, prediction, call, result>>

Merge ==
  /\ pc = "merge"
  /\ prediction' = mergePredictions(patterns)
  /\ pc' = "estimates"
  /\ UNCHANGED <<buyCell, sellCells, sellPrices, patterns, call, result>>

NormalizeTheEstimates ==
  /\ pc = "estimates"
  /\ prediction' = [prediction EXCEPT !.estimates = NormalizeEstimates(@)]
  /\ pc' = "trends"
  /\ UNCHANGED <<buyCell, sellCells, sellPrices, patterns, call, result>>

NormalizeTheTrends ==
  /\ pc = "trends"
  /\ prediction' = [prediction EXCEPT !.trends = NormalizeTrends(@)]
  /\ pc' = "done"
  /\ UNCHANGED <<buyCell, sellCells, sellPrices, patterns, call, result>>

----------------------------------------------------------------------------
(* The sheets updateSheet is run on *)

\* trailing sell cells left blank in a week that is still running
MaxBlank == 1

\* weeks bought at 100, one that each pattern produces, in the order of sellPrices
Weeks ==
  << <<110, 120, 70, 62, 95, 130, 100, 75, 66, 58, 105, 115>>,
     <<87, 83, 79, 120, 180, 450, 160, 100, 70, 60, 50, 45>>,
     <<88, 84, 80, 76, 72, 68, 64, 60, 56, 52, 48, 44>>,
     <<60, 55, 100, 110, 150, 165, 155, 80, 70, 60, 50, 40>> >>

\* the sell cells holding the first n prices of a week, the others blank
Cells(week, n) ==
  [row \in 1..2 |-> [day \in 1..6 |->
     IF 2 * (day - 1) + row <= n THEN week[2 * (day - 1) + row] ELSE 0]]

\* a week bought at 100, Tuesday's second price missing, whose first nine prices
\* both Random and Small Spike branches accept
AmbiguousWeek == <<90, 100, 120, 0, 140, 140, 70, 66, 62>>

\* all cells blank but one, which holds a price no pattern produces
Impossible(k) ==
  [row \in 1..2 |-> [day \in 1..6 |-> IF 2 * (day - 1) + row = k THEN 1000 ELSE 0]]

Sheets ==
  {[buy |-> 100, sell |-> Cells(Weeks[w], 12 - blank)] : w \in 1..4, blank \in 0..MaxBlank}
  \cup {[buy |-> 100, sell |-> Cells(Weeks[1], 0)], [buy |-> 100, sell |-> Cells(Weeks[3], 2)]}
  \cup {[buy |-> 100, sell |-> Cells(AmbiguousWeek, 9)]}
  \cup {[buy |-> 100, sell |-> Impossible(k)] : k \in {1, 8}}
  \cup {[buy |-> b, sell |-> Cells(Weeks[1], 12)] : b \in {0, 89, 90, 110, 111}}

Init ==
  /\ pc = "read"
  /\ \E sheet \in Sheets : buyCell = sheet.buy /\ sellCells = sheet.sell
  /\ sellPrices = None
  /\ patterns = <<>>
  /\ prediction = None
  /\ call = None
  /\ result = None

Next ==
  \/ ReadSheet
  \/ GenerateZero
  \/ GenerateOne
  \/ GenerateTwo
  \/ GenerateThree
  \/ Merge
  \/ NormalizeTheEstimates
  \/ NormalizeTheTrends

Spec == Init /\ [][Next]_vars

----------------------------------------------------------------------------
(* Properties of updateSheet, checked under Spec *)

\* mergePredictions has returned the prediction of the four patterns
Merged == pc \in {"estimates", "trends", "done"}

\* some branch of some pattern accepted the prices
Survives == \E k \in 1..Len(patterns) : IsPrediction(patterns[k]) /\ Len(patterns[k].trends) > 0

\* all twelve sell prices are known
FullySpecified == \A k \in 3..14 : ~isNaN(sellPrices[k])

\* no sell price is known
AllUnknown == \A k \in 3..14 : isNaN(sellPrices[k])

\* the distribution of slot t of a prediction: a slot the prediction does not
\* have is an empty distribution
SlotOf(pred, t) == IF t \in DOMAIN pred.estimates THEN pred.estimates[t] ELSE <<>>

\* C1: once updateSheet has normalised the prediction, the probabilities of every
\* non-empty slot distribution sum to 1, and the trend weights sum to 1 whenever
\* some branch of some pattern survives.
C1_NormalizedSumsToOne ==
  pc = "done" =>
    /\ \A t \in 1..Len(prediction.estimates) :
         Len(prediction.estimates[t]) > 0 => Sum(prediction.estimates[t]) = 1
    /\ Survives => Sum(prediction.trends) = 1

\* a normalised prediction that several trends share and in which a slot holds
\* more than one price
C1_Witness ==
  /\ pc = "done"
  /\ Len(prediction.trends) > 1
  /\ \E t \in 1..Len(prediction.estimates) : Len(prediction.estimates[t]) > 1

\* the only known sell price is one that no branch of any pattern accepts: the
\* highest price a branch produces is ceil(6.0 * 110) = 660
OneImpossible(k) ==
  /\ sellPrices[k] > 660
  /\ \A j \in (3..14) \ {k} : isNaN(sellPrices[j])

\* C2 as stated: with an impossible price at one slot and every other sell slot
\* unknown, the merged prediction has an empty distribution at that slot and a
\* non-empty distribution at every other slot.
C2_RejectionIsLocal ==
  \A k \in 3..14 :
    (Merged /\ OneImpossible(k)) =>
      /\ SlotOf(prediction, k) = <<>>
      /\ \A t \in (1..14) \ {k} : SlotOf(prediction, t) # <<>>

\* C2, amended: with an impossible price at one slot and every other sell slot
\* unknown, every branch is rejected as a whole, so the merged prediction has no
\* slot distribution at all, at the impossible slot or at any other, and no trend.
C2_RejectionIsGlobal ==
  \A k \in 3..14 :
    (Merged /\ OneImpossible(k)) =>
      /\ \A t \in 1..14 : SlotOf(prediction, t) = <<>>
      /\ prediction.trends = <<>>

\* the prediction is merged for a sheet whose only sell price is impossible
C2_Witness == Merged /\ \E k \in 3..14 : OneImpossible(k) /\ prediction.estimates = <<>>

\* C3 as stated: for every input the merged prediction is a sequence of exactly
\* 14 slot distributions.
C3_AlwaysFourteenSlots == Merged => Len(prediction.estimates) = 14

\* C3, amended: the merged prediction is a sequence of exactly 14 slot
\* distributions when some branch of some pattern accepts the prices, and the
\* empty sequence when every branch of every pattern rejects them.
C3_FourteenSlotsOrNone ==
  Merged =>
    /\ Survives => Len(prediction.estimates) = 14
    /\ ~Survives => Len(prediction.estimates) = 0

\* a merged prediction of 14 slots in which slots hold several prices
C3_Witness ==
  /\ Merged
  /\ Len(prediction.estimates) = 14
  /\ \E t \in 3..14 : Len(prediction.estimates[t]) > 1

\* C4: when the buy price is valid, all twelve sell prices are known and some
\* branch accepts them, every one of the 14 slots of the normalised prediction
\* is the single price given for it, with probability 1.
C4_FullySpecifiedIsCertain ==
  (pc = "done" /\ buyCell \in 90..110 /\ FullySpecified /\ Survives) =>
    /\ Len(prediction.estimates) = 14
    /\ \A t \in 1..14 :
         prediction.estimates[t] = <<[price |-> sellPrices[t], probability |-> 1]>>

\* a normalised prediction for a fully specified week that more than one branch
\* accepts (the unnormalised trend weight is more than one branch's share)
C4_Witness ==
  /\ pc = "done" /\ buyCell \in 90..110 /\ FullySpecified /\ Survives
  /\ IsPrediction(patterns[4]) /\ Len(patterns[4].trends) = 1
  /\ patterns[4].trends[1].probability # ThreeProbability

\* C5: when every sell price is unknown and the buy price is 100, no branch of
\* any pattern is rejected, each of the 14 slots of the normalised prediction is
\* non-empty, and the normalised trend weights sum to 1.
C5_AllUnknownKeepsEveryBranch ==
  (pc = "done" /\ buyCell = 100 /\ AllUnknown) =>
    /\ LET zero == ZeroPredictions(sellPrices)
           one == OnePredictions(sellPrices)
           three == ThreePredictions(sellPrices)
       IN /\ \A n \in 1..Len(zero) : IsPrediction(zero[n])
          /\ \A n \in 1..Len(one) : IsPrediction(one[n])
          /\ IsPrediction(generatePatternTwo(sellPrices))
          /\ \A n \in 1..Len(three) : IsPrediction(three[n])
    /\ Len(prediction.estimates) = 14
    /\ \A t \in 1..14 : Len(prediction.estimates[t]) > 0
    /\ Sum(prediction.trends) = 1

\* the normalised prediction for the all-unknown week bought at 100, with all
\* four trends
C5_Witness ==
  /\ pc = "done" /\ buyCell = 100 /\ AllUnknown
  /\ Len(prediction.trends) = 4

----------------------------------------------------------------------------
(* The estimate algebra called on its own: priceRange, multiplyEstimates,
   generateRates and mergePredictions, each applied to arguments drawn from
   bounded sets *)

\* the widest range of prices priceRange is called with, beside 200..660
MaxSpan == 20

\* the most entries in a distribution given to multiplyEstimates
MaxEntries == 2

\* the longest chain asked of generateRates
MaxLength == 3

\* the most branches in a list given to mergePredictions
MaxBranches == 3

SeqsUpTo(S, n) == UNION {[1..k -> S] : k \in 0..n}

Probabilities == {0, 1, Lit(1, 3), ZeroProbability(6)}

RangeCalls ==
  {[fn |-> "priceRange", min |-> min, max |-> max, probability |-> p] :
     min \in {1, 90, 200}, max \in 0..660, p \in Probabilities}

\* rates in hundredths, two of which meet two of the prices in one product:
\* ceil(0.60 * 91) = ceil(0.61 * 90) = 55
RateEntries == [price : {60, 61}, probability : {Lit(1, 2), Lit(1, 3)}]

PriceEntries == [price : {90, 91}, probability : {Lit(1, 2), Lit(1, 3)}]

\* the first arguments of multiplyEstimates: short distributions of rates, and
\* day 1 of the chain generatePatternZero passes
RateDistributions == SeqsUpTo(RateEntries, MaxEntries) \cup {ZeroRates(2)[2]}

\* the second arguments: short distributions of prices, and the purchase-price
\* prior of an unknown buy price
PriceDistributions ==
  SeqsUpTo(PriceEntries, MaxEntries) \cup {priceRange(90, 110, ZeroProbability(0))}

\* the parameters generateRates is called with in the patterns, and a single rate
RateParameters == {<<60, 80, 4, 10>>, <<85, 90, 3, 5>>, <<40, 90, 3, 5>>, <<60, 60, 4, 4>>}

\* branches built for the ambiguous week: the Decreasing branch, which rejects
\* it, and a Random and two Small Spike branches, which accept it
AmbiguousBranches ==
  LET given_prices == ReadPrices(100, Cells(AmbiguousWeek, 9))
  IN { generatePatternTwo(given_prices),
       ZeroCell(given_prices, 3, 6, 0, ZeroRates(3), ZeroRates(2)),
       generatePatternThreeWithPeak(given_prices, 3, 140, ThreeRates(1), ThreeRates(6),
                                    ThreeProbability),
       generatePatternThreeWithPeak(given_prices, 3, 141, ThreeRates(1), ThreeRates(6),
                                    ThreeProbability) }

CallPriceRange ==
  /\ pc = "call"
  /\ \E c \in RangeCalls :
       /\ c.max \in (c.min - 1)..(c.min + MaxSpan) \cup {660}
       /\ call' = c
       /\ result' = priceRange(c.min, c.max, c.probability)
  /\ pc' = "returned"
  /\ UNCHANGED <<buyCell, sellCells, sellPrices, patterns, prediction>>

CallMultiplyEstimates ==
  /\ pc = "call"
  /\ \E a \in RateDistributions, b \in PriceDistributions :
       /\ call' = [fn |-> "multiplyEstimates", a |-> a, b |-> b]
       /\ result' = multiplyEstimates(a, b)
  /\ pc' = "returned"
  /\ UNCHANGED <<buyCell, sellCells, sellPrices, patterns, prediction>>

CallGenerateRates ==
  /\ pc = "call"
  /\ \E r \in RateParameters, length \in (-1)..MaxLength :
       /\ call' = [fn |-> "generateRates", startMin |-> r[1], startMax |-> r[2],
                   incrMin |-> r[3], incrMax |-> r[4], length |-> length]
       /\ result' = generateRates(r[1], r[2], r[3], r[4], length)
  /\ pc' = "returned"
  /\ UNCHANGED <<buyCell, sellCells, sellPrices, patterns, prediction>>

CallMergePredictions ==
  /\ pc = "call"
  /\ \E predictions \in SeqsUpTo(AmbiguousBranches, MaxBranches) :
       /\ call' = [fn |-> "mergePredictions", predictions |-> predictions]
       /\ result' = mergePredictions(predictions)
  /\ pc' = "returned"
  /\ UNCHANGED <<buyCell, sellCells, sellPrices, patterns, prediction>>

CallInit ==
  /\ pc = "call"
  /\ buyCell = None /\ sellCells = None /\ sellPrices = None
  /\ patterns = <<>> /\ prediction = None
  /\ call = None /\ result = None

CallNext ==
  \/ CallPriceRange
  \/ CallMultiplyEstimates
  \/ CallGenerateRates
  \/ CallMergePredictions

CallSpec == CallInit /\ [][CallNext]_vars

Returned(fn) == pc = "returned" /\ call.fn = fn

----------------------------------------------------------------------------
(* Properties of the estimate algebra, checked under CallSpec *)

\* the probability a distribution gives to a price
ProbabilityOf(s, price) == s[CHOOSE i \in 1..Len(s) : s[i].price = price].probability

\* a distribution as a mapping from its prices to their probabilities
SlotMapping(s) == [price \in Prices(s) |-> ProbabilityOf(s, price)]

\* the trend weights of a prediction as a mapping from the names
TrendMapping(trends) ==
  [name \in {trends[i].name : i \in 1..Len(trends)} |->
     trends[CHOOSE i \in 1..Len(trends) : trends[i].name = name].probability]

\* a prediction without the order of its entries
AsMapping(pred) ==
  [estimates |-> [t \in 1..Len(pred.estimates) |-> SlotMapping(pred.estimates[t])],
   trends |-> TrendMapping(pred.trends)]

\* the orders n entries can be put in
Orders(n) == {f \in [1..n -> 1..n] : \A i, j \in 1..n : f[i] = f[j] => i = j}

\* the partitions of n entries: f[i] is the sub-list of entry i, the sub-lists
\* numbered in the order of their first entries
Groupings(n) ==
  {f \in [1..n -> 1..n] :
     \A i \in 1..n : \A g \in 2..f[i] : \E j \in 1..(i - 1) : f[j] = g - 1}

\* the entries of a list that a grouping puts in sub-list g, in the list's order
SubList(list, f, g) ==
  LET members == {i \in 1..Len(list) : f[i] = g}
  IN [k \in 1..Cardinality(members) |->
        list[CHOOSE i \in members : Cardinality({j \in members : j <= i}) = k]]

\* the sub-lists of a grouping, each one merged
MergedSubLists(list, f) ==
  [g \in 1..Cardinality({f[i] : i \in 1..Len(list)}) |-> mergePredictions(SubList(list, f, g))]

\* C6: mergePredictions is commutative and associative: merging a list of
\* branches, accepted or rejected, in any order, or merging the merged sub-lists
\* of any partition of it, gives the same mapping from prices to probabilities at
\* every slot and the same weight for every trend name.
C6_MergeCommutesAndAssociates ==
  Returned("mergePredictions") =>
    LET list == call.predictions
        merged == AsMapping(result)
    IN /\ \A f \in Orders(Len(list)) :
            AsMapping(mergePredictions([i \in 1..Len(list) |-> list[f[i]]])) = merged
       /\ \A f \in Groupings(Len(list)) :
            AsMapping(mergePredictions(MergedSubLists(list, f))) = merged

\* a merge of three branches, one rejected, one Random and one Small Spike
C6_Witness ==
  /\ Returned("mergePredictions")
  /\ Len(call.predictions) = 3
  /\ \E i \in 1..3 : ~IsPrediction(call.predictions[i])
  /\ Len(result.trends) = 2
  /\ Len(result.estimates) = 14

\* C7: for integers min <= max and any probability p, priceRange(min, max, p)
\* returns max - min + 1 entries, one for each integer price of min..max in
\* turn, each with probability p / (max - min + 1), which sum to p.
C7_PriceRangeIsUniform ==
  (Returned("priceRange") /\ call.min <= call.max) =>
    /\ Len(result) = call.max - call.min + 1
    /\ \A i \in 1..Len(result) :
         /\ result[i].price = call.min + i - 1
         /\ Mul(result[i].probability, call.max - call.min + 1) = call.probability
    /\ Sum(result) = call.probability

\* the purchase-price prior of an unknown buy price: priceRange(90, 110, p), p > 0
C7_Witness ==
  /\ Returned("priceRange")
  /\ call.min = 90 /\ call.max = 110 /\ call.probability = ZeroProbability(6)
  /\ Len(result) = 21

\* C8: multiplyEstimates(a, b) has the mass sum(a) * sum(b), has pairwise
\* distinct prices, each the ceiling of x.price * y.price for an x of a and a y
\* of b, and has at most |a| * |b| entries.  (x.price is a rate in hundredths:
\* k is the ceiling of x.price * y.price / 100 iff 100 (k - 1) < x.price * y.price <= 100 k.)
C8_MultiplyKeepsMass ==
  Returned("multiplyEstimates") =>
    /\ Sum(result) = Mul(Sum(call.a), Sum(call.b))
    /\ \A i, j \in 1..Len(result) : result[i].price = result[j].price => i = j
    /\ \A i \in 1..Len(result) :
         \E x \in 1..Len(call.a), y \in 1..Len(call.b) :
           /\ call.a[x].price * call.b[y].price <= 100 * result[i].price
           /\ call.a[x].price * call.b[y].price > 100 * (result[i].price - 1)
    /\ Len(result) <= Len(call.a) * Len(call.b)

\* a product in which two pairs of entries meet in one price, so that the result
\* has fewer entries than there are pairs
C8_Witness ==
  /\ Returned("multiplyEstimates")
  /\ Len(call.a) = 2 /\ Len(call.b) = 2
  /\ Len(result) = 3

\* C9: generateRates returns the empty sequence when length <= 0 and otherwise
\* exactly length distributions, of which day 0 holds one entry for every
\* hundredth from startMin to startMax, both ends included, all equally likely,
\* each with probability 1 / (number of entries).
C9_RatesDayZero ==
  Returned("generateRates") =>
    /\ call.length <= 0 => result = <<>>
    /\ call.length > 0 =>
         /\ Len(result) = call.length
         /\ Len(result[1]) = call.startMax - call.startMin + 1
         /\ \A i \in 1..Len(result[1]) :
              /\ result[1][i].price = call.startMin + i - 1
              /\ result[1][i].probability = result[1][1].probability
              /\ Mul(result[1][i].probability, Len(result[1])) = 1

\* generateRates(0.6, 0.8, 0.04, 0.1, 1): one slot of 21 entries, each 1/21
C9_Witness ==
  /\ Returned("generateRates")
  /\ call.startMin = 60 /\ call.startMax = 80 /\ call.incrMin = 4 /\ call.incrMax = 10
  /\ call.length = 1
  /\ Len(result) = 1 /\ Len(result[1]) = 21
  /\ \A i \in 1..21 : result[1][i].probability = Lit(1, 21)

----------------------------------------------------------------------------
(* The branch builders called on their own: updateSheet reads the sheet, and one
   grid cell of one pattern is built from its prices as the pattern's
   enumerator builds it *)

\* the turns of the loops of the four enumerators
ZeroGrid ==
  {[pattern |-> 0, dec_phase_1_len |-> d, high_phase_1_len |-> h1, high_phase_3_len |-> h3] :
     d \in 2..3, h1 \in 0..6, h3 \in 0..6}

OneGrid == {[pattern |-> 1, peak_start |-> k] : k \in 3..9}

TwoGrid == {[pattern |-> 2]}

ThreeGrid == {[pattern |-> 3, peak_start |-> k, spike_rate |-> r] : k \in 2..9, r \in 140..200}

\* the branch an enumerator builds in the turn `cell` of its loops
Branch(given_prices, cell) ==
  CASE cell.pattern = 0 ->
         ZeroCell(given_prices, cell.dec_phase_1_len, cell.high_phase_1_len,
                  cell.high_phase_3_len,
                  ZeroRates(cell.dec_phase_1_len), ZeroRates(5 - cell.dec_phase_1_len))
    [] cell.pattern = 1 ->
         generatePatternOneWithPeak(given_prices, cell.peak_start,
                                    OneRates(cell.peak_start), OneProbability)
    [] cell.pattern = 2 ->
         generatePatternTwoWithRates(given_prices, TwoRates, TwoProbability)
    [] cell.pattern = 3 ->
         generatePatternThreeWithPeak(given_prices, cell.peak_start, cell.spike_rate,
                                      ThreeRates(cell.peak_start - 2),
                                      ThreeRates(9 - cell.peak_start), ThreeProbability)

BuildZero ==
  /\ pc = "zero"
  /\ \E cell \in ZeroGrid :
       /\ cell.high_phase_3_len < 7 - cell.high_phase_1_len
       /\ call' = cell
       /\ result' = Branch(sellPrices, cell)
  /\ pc' = "built"
  /\ UNCHANGED <<buyCell, sellCells, sellPrices, patterns, prediction>>

BuildOne ==
  /\ pc = "zero"
  /\ \E cell \in OneGrid : call' = cell /\ result' = Branch(sellPrices, cell)
  /\ pc' = "built"
  /\ UNCHANGED <<buyCell, sellCells, sellPrices, patterns, prediction>>

BuildTwo ==
  /\ pc = "zero"
  /\ \E cell \in TwoGrid : call' = cell /\ result' = Branch(sellPrices, cell)
  /\ pc' = "built"
  /\ UNCHANGED <<buyCell, sellCells, sellPrices, patterns, prediction>>

BuildThree ==
  /\ pc = "zero"
  /\ \E cell \in ThreeGrid : call' = cell /\ result' = Branch(sellPrices, cell)
  /\ pc' = "built"
  /\ UNCHANGED <<buyCell, sellCells, sellPrices, patterns, prediction>>

\* sheets with a buy cell that is blank, below 90, at 90, at 100, at 110 and
\* above 110
BranchSheets ==
  {[buy |-> b, sell |-> Cells(Weeks[1], 0)] : b \in {90, 100, 110}}
  \cup {[buy |-> b, sell |-> Cells(Weeks[1], 12)] : b \in {0, 89, 111}}
  \cup {[buy |-> 100, sell |-> Cells(AmbiguousWeek, 9)]}

BranchInit ==
  /\ pc = "read"
  /\ \E sheet \in BranchSheets : buyCell = sheet.buy /\ sellCells = sheet.sell
  /\ sellPrices = None
  /\ patterns = <<>>
  /\ prediction = None
  /\ call = None
  /\ result = None

BranchNext ==
  \/ ReadSheet
  \/ BuildZero
  \/ BuildOne
  \/ BuildTwo
  \/ BuildThree

BranchSpec == BranchInit /\ [][BranchNext]_vars

----------------------------------------------------------------------------
(* Properties of the branch builders, checked under BranchSpec *)

\* the bounds of the purchase price that a buy cell stands for
PurchaseBounds(b) == IF 90 <= b /\ b <= 110 THEN <<b, b>> ELSE <<90, 110>>

\* C10: whatever the buy cell holds, the bounds that seed slots 0 and 1 are
\* (b, b) when 90 <= b <= 110 and (90, 110) otherwise, slots 0 and 1 of every
\* branch are the same uniform distribution over these bounds, carrying the
\* branch's probability, and no error is raised.
C10_BuyPriceIsSanitized ==
  /\ pc # "read" => <<sellPrices[1], sellPrices[2]>> = PurchaseBounds(buyCell)
  /\ pc = "built" =>
       /\ ~IsThrown(result)
       /\ IsPrediction(result) =>
            LET lo == PurchaseBounds(buyCell)[1]
                hi == PurchaseBounds(buyCell)[2]
            IN /\ result.estimates[1] = result.estimates[2]
               /\ Len(result.estimates[1]) = hi - lo + 1
               /\ \A i \in 1..(hi - lo + 1) :
                    /\ result.estimates[1][i].price = lo + i - 1
                    /\ Mul(result.estimates[1][i].probability, hi - lo + 1)
                         = result.trends[1].probability

\* an accepted branch for a buy cell above 110: slots 0 and 1 hold the 21 prices
\* of 90..110
C10_Witness ==
  /\ pc = "built" /\ buyCell = 111
  /\ IsPrediction(result)
  /\ Len(result.estimates[1]) = 21 /\ Len(result.estimates[2]) = 21

----------------------------------------------------------------------------
(* The branch builders on weeks that are partly known: the same steps as
   BranchSpec, on sheets that differ in which sell prices are known *)

\* the all-unknown week, the ambiguous week, each example week with its last
\* prices missing, all bought at 100, and a week with no valid buy price
BuilderSheets ==
  {[buy |-> 100, sell |-> Cells(Weeks[1], 0)], [buy |-> 100, sell |-> Cells(AmbiguousWeek, 9)]}
  \cup {[buy |-> 100, sell |-> Cells(Weeks[w], 12 - blank)] : w \in 1..4, blank \in 1..MaxBlank}
  \cup {[buy |-> 0, sell |-> Cells(Weeks[1], 11)]}

BuilderInit ==
  /\ pc = "read"
  /\ \E sheet \in BuilderSheets : buyCell = sheet.buy /\ sellCells = sheet.sell
  /\ sellPrices = None
  /\ patterns = <<>>
  /\ prediction = None
  /\ call = None
  /\ result = None

BuilderSpec == BuilderInit /\ [][BranchNext]_vars

----------------------------------------------------------------------------
(* Properties of the branch builders, checked under BuilderSpec *)

\* the prices with every sell price unknown: what a branch computes from them is
\* the distribution it computes for each slot before it looks at the observation
Blanked(given_prices) == [k \in 1..14 |-> IF k <= 2 THEN given_prices[k] ELSE NaN]

\* C11: in every branch builder, for the slots i >= 2: if a known price is below
\* the least or above the greatest candidate price computed for its slot, the
\* whole branch is the rejection value; otherwise every slot with a known price
\* is the single price observed, carrying the branch's probability, and every
\* slot with an unknown price keeps the distribution computed for it.
C11_RejectOrCollapse ==
  pc = "built" =>
    LET computed == Branch(Blanked(sellPrices), call)
        known == {i \in 3..14 : ~isNaN(sellPrices[i])}
        Outside(i) == LET candidates == computed.estimates[i]
                      IN \/ sellPrices[i] < MinPrice(candidates)
                         \/ sellPrices[i] > MaxPrice(candidates)
    IN /\ IsPrediction(computed)
       /\ IF \E i \in known : Outside(i)
            THEN result = undefined
            ELSE /\ IsPrediction(result)
                 /\ Len(result.estimates) = 14
                 /\ result.trends = computed.trends
                 /\ \A i \in 3..14 :
                      IF i \in known
                        THEN result.estimates[i] =
                               <<[price |-> sellPrices[i],
                                  probability |-> computed.trends[1].probability]>>
                        ELSE result.estimates[i] = computed.estimates[i]

\* an accepted branch with known sell prices, collapsed, and an unknown one that
\* keeps several candidate prices
C11_Witness ==
  /\ pc = "built" /\ IsPrediction(result)
  /\ \E i \in 3..14 : ~isNaN(sellPrices[i]) /\ Len(result.estimates[i]) = 1
  /\ \E i \in 3..14 : isNaN(sellPrices[i]) /\ Len(result.estimates[i]) > 1

\* a branch rejected for a known sell price outside its slot's candidates
C11_WitnessRejected ==
  /\ pc = "built" /\ result = undefined
  /\ \E i \in 3..14 : ~isNaN(sellPrices[i])

----------------------------------------------------------------------------
(* Further properties of mergePredictions, checked under CallSpec *)

\* the probability a branch gives to a price at slot t: nothing when the branch
\* is rejected, has no slot t or has no such price there
BranchMass(branch, t, price) ==
  IF ~IsPrediction(branch) THEN 0
  ELSE IF t > Len(branch.estimates) THEN 0
  ELSE IF price \notin Prices(branch.estimates[t]) THEN 0
  ELSE ProbabilityOf(branch.estimates[t], price)

\* the weight a branch gives to a trend name
BranchTrend(branch, name) ==
  IF ~IsPrediction(branch) THEN 0
  ELSE IF \A i \in 1..Len(branch.trends) : branch.trends[i].name # name THEN 0
  ELSE branch.trends[CHOOSE i \in 1..Len(branch.trends) : branch.trends[i].name = name].probability

RECURSIVE TotalMass(_, _, _, _)
\* the sum of BranchMass over the first n branches of a list
TotalMass(list, n, t, price) ==
  IF n = 0 THEN 0 ELSE Add(TotalMass(list, n - 1, t, price), BranchMass(list[n], t, price))

RECURSIVE TotalTrend(_, _, _)
\* the sum of BranchTrend over the first n branches of a list
TotalTrend(list, n, name) ==
  IF n = 0 THEN 0 ELSE Add(TotalTrend(list, n - 1, name), BranchTrend(list[n], name))

\* the accepted branches of a list
Accepted(list) == {n \in 1..Len(list) : IsPrediction(list[n])}

\* C12: mergePredictions returns, at every slot, exactly the prices that some
\* accepted branch has there, each with the sum of the probabilities the accepted
\* branches give it, and exactly the trend names of the accepted branches, each
\* with the sum of their weights; a rejected branch adds nothing, and nothing is
\* rescaled to make up for it.
C12_MergeSumsAcceptedBranches ==
  Returned("mergePredictions") =>
    LET list == call.predictions
        n == Len(list)
    IN /\ \A t \in 1..14 :
            LET prices == UNION {Prices(list[k].estimates[t]) : k \in Accepted(list)}
            IN /\ Prices(SlotOf(result, t)) = prices
               /\ Len(SlotOf(result, t)) = Cardinality(prices)
               /\ \A price \in prices :
                    ProbabilityOf(result.estimates[t], price) = TotalMass(list, n, t, price)
       /\ Len(result.estimates) = IF Accepted(list) = {} THEN 0 ELSE 14
       /\ LET names == UNION {{list[k].trends[i].name : i \in 1..Len(list[k].trends)} :
                                k \in Accepted(list)}
          IN /\ {result.trends[i].name : i \in 1..Len(result.trends)} = names
             /\ Len(result.trends) = Cardinality(names)
             /\ \A i \in 1..Len(result.trends) :
                  result.trends[i].probability = TotalTrend(list, n, result.trends[i].name)

\* a merge of a rejected branch and two accepted branches that share a trend and
\* prices: the trend weight is the sum of two branch probabilities
C12_Witness ==
  /\ Returned("mergePredictions")
  /\ Len(call.predictions) = 3
  /\ Cardinality(Accepted(call.predictions)) = 2
  /\ Len(result.trends) = 1
  /\ result.trends[1].probability = Add(ThreeProbability, ThreeProbability)

----------------------------------------------------------------------------
(* Properties of the pattern grids, checked under BuilderSpec *)

\* the prior weights of Random, Big Spike, Decreasing and Small Spike
Prior(pattern) ==
  CASE pattern = 0 -> Lit(346, 1000)
    [] pattern = 1 -> Lit(248, 1000)
    [] pattern = 2 -> Lit(1475, 10000)
    [] pattern = 3 -> Lit(2585, 10000)

\* the number of grid cells of a pattern: 56, 7, 1 and 488
GridCells(pattern) ==
  CASE pattern = 0 ->
         Cardinality({c \in ZeroGrid : c.high_phase_3_len < 7 - c.high_phase_1_len})
    [] pattern = 1 -> Cardinality(OneGrid)
    [] pattern = 2 -> Cardinality(TwoGrid)
    [] pattern = 3 -> Cardinality(ThreeGrid)

\* an accepted branch was built for a grid cell
Built == pc = "built" /\ IsPrediction(result)

\* C13 as stated: every grid cell of a pattern is given the same branch
\* probability, the pattern's prior divided by the number of its grid cells.
C13_PriorDividedEvenly ==
  Built => Mul(result.trends[1].probability, GridCells(call.pattern)) = Prior(call.pattern)

\* C13, amended: a cell of Big Spike is given prior / 7, the one cell of
\* Decreasing the whole prior, a cell of Small Spike prior / 488, each the prior
\* divided by the number of cells; a cell of Random with high_phase_1_len = h is
\* given prior / (2 * 7 * (7 - h)), which differs from cell to cell (the 7 - h
\* cells that share h and dec_phase_1_len share prior / 14 between them).
C13_PriorDividedByLoops ==
  Built =>
    IF call.pattern = 0
      THEN Mul(result.trends[1].probability, 2 * 7 * (7 - call.high_phase_1_len)) = Prior(0)
      ELSE Mul(result.trends[1].probability, GridCells(call.pattern)) = Prior(call.pattern)

\* an accepted Random branch with high_phase_1_len = 6, whose probability is
\* prior / 14 and not prior / 56
C13_Witness ==
  /\ Built /\ call.pattern = 0 /\ call.high_phase_1_len = 6
  /\ result.trends[1].probability = Div(Prior(0), 14)
  /\ result.trends[1].probability # Div(Prior(0), 56)

----------------------------------------------------------------------------
(* Grid cells built in any order, merged and normalised at any moment.  The
   source builds the cells in the order of its loops and merges them all; here
   the builders, mergePredictions and the normalisation of updateSheet are
   applied to every order and every prefix of a few cells *)

\* cells of the four patterns, in the order the enumerators build them
AnytimeCells ==
  << [pattern |-> 0, dec_phase_1_len |-> 3, high_phase_1_len |-> 6, high_phase_3_len |-> 0],
     [pattern |-> 1, peak_start |-> 3],
     [pattern |-> 2],
     [pattern |-> 3, peak_start |-> 3, spike_rate |-> 140],
     [pattern |-> 3, peak_start |-> 3, spike_rate |-> 141] >>

\* the all-unknown week and the ambiguous week, bought at 100
AnytimeSheets ==
  {[buy |-> 100, sell |-> Cells(Weeks[1], 0)], [buy |-> 100, sell |-> Cells(AmbiguousWeek, 9)]}

\* lines 146-158 on a list of branches: merge, then normalise
MergeAndNormalize(branches) ==
  LET merged == mergePredictions(branches)
  IN [estimates |-> NormalizeEstimates(merged.estimates),
      trends |-> NormalizeTrends(merged.trends)]

\* the cells completed so far
Completed == {patterns[n].cell : n \in 1..Len(patterns)}

\* one more cell completes: its branch is built from the prices
CompleteCell ==
  /\ pc = "zero"
  /\ \E k \in 1..Len(AnytimeCells) :
       /\ AnytimeCells[k] \notin Completed
       /\ patterns' = Append(patterns, [cell |-> AnytimeCells[k],
                                        branch |-> Branch(sellPrices, AnytimeCells[k])])
  /\ UNCHANGED <<pc, buyCell, sellCells, sellPrices, prediction, call, result>>

\* the evaluation stops: the branches completed so far are merged and normalised
StopAndMerge ==
  /\ pc = "zero"
  /\ prediction' = MergeAndNormalize([n \in 1..Len(patterns) |-> patterns[n].branch])
  /\ pc' = "done"
  /\ UNCHANGED <<buyCell, sellCells, sellPrices, patterns, call, result>>

AnytimeInit ==
  /\ pc = "read"
  /\ \E sheet \in AnytimeSheets : buyCell = sheet.buy /\ sellCells = sheet.sell
  /\ sellPrices = None
  /\ patterns = <<>>
  /\ prediction = None
  /\ call = None
  /\ result = None

AnytimeNext ==
  \/ ReadSheet
  \/ CompleteCell
  \/ StopAndMerge

AnytimeSpec == AnytimeInit /\ [][AnytimeNext]_vars

\* C14: when the cells are evaluated in any order and the evaluation stops after
\* any of them, merging and normalising the completed branches gives a valid
\* result: every non-empty slot sums to 1, and the trends sum to 1 if a
\* completed branch was accepted; and when all the cells have completed, the
\* result is the same, as a mapping, for every order.
C14_AnyOrderAnyPrefix ==
  pc = "done" =>
    /\ \A t \in 1..Len(prediction.estimates) :
         Len(prediction.estimates[t]) > 0 => Sum(prediction.estimates[t]) = 1
    /\ (\E n \in 1..Len(patterns) : IsPrediction(patterns[n].branch)) =>
         Sum(prediction.trends) = 1
    /\ Len(patterns) = Len(AnytimeCells) =>
         AsMapping(prediction) =
           AsMapping(MergeAndNormalize([k \in 1..Len(AnytimeCells) |->
                                          Branch(sellPrices, AnytimeCells[k])]))

\* all the cells completed in an order that is not the enumerators', the last
\* one rejected, and the result has two trends
C14_Witness ==
  /\ pc = "done"
  /\ Len(patterns) = Len(AnytimeCells)
  /\ patterns[1].cell = AnytimeCells[5]
  /\ ~IsPrediction(patterns[5].branch)
  /\ Len(prediction.trends) = 2

\* the evaluation stopped after two cells, one rejected and one accepted
C14_WitnessPrefix ==
  /\ pc = "done"
  /\ Len(patterns) = 2
  /\ ~IsPrediction(patterns[1].branch) /\ IsPrediction(patterns[2].branch)
  /\ Len(prediction.estimates) = 14

----------------------------------------------------------------------------
(* Mass of the slots, checked under Spec *)

\* a branch gives each of its 14 slots a mass equal to its probability
BranchMassIsProbability(branch) ==
  /\ Len(branch.estimates) = 14
  /\ \A t \in 1..14 : Sum(branch.estimates[t]) = branch.trends[1].probability

\* every slot of a prediction carries the mass of its trends
SlotsCarryTrendMass(pred) ==
  \A t \in 1..Len(pred.estimates) : Sum(pred.estimates[t]) = Sum(pred.trends)

\* C15: every accepted branch gives each of its 14 slots a mass equal to its
\* branch probability; so in every merge of branches, before normalisation, all
\* slots carry the same mass, the mass of the trends; and the slots of a merged
\* prediction are either all empty or all non-empty.
C15_SlotsCarryBranchMass ==
  /\ pc = "merge" =>
       LET zero == ZeroPredictions(sellPrices)
           one == OnePredictions(sellPrices)
           two == generatePatternTwo(sellPrices)
           three == ThreePredictions(sellPrices)
       IN /\ \A n \in 1..Len(zero) : IsPrediction(zero[n]) => BranchMassIsProbability(zero[n])
          /\ \A n \in 1..Len(one) : IsPrediction(one[n]) => BranchMassIsProbability(one[n])
          /\ IsPrediction(two) => BranchMassIsProbability(two)
          /\ \A n \in 1..Len(three) : IsPrediction(three[n]) => BranchMassIsProbability(three[n])
  /\ \A k \in 1..Len(patterns) : IsPrediction(patterns[k]) => SlotsCarryTrendMass(patterns[k])
  /\ pc = "estimates" => SlotsCarryTrendMass(prediction)
  /\ Merged => \/ \A t \in 1..14 : SlotOf(prediction, t) = <<>>
               \/ \A t \in 1..14 : SlotOf(prediction, t) # <<>>

\* the merge of the four patterns, before normalisation, with more than one
\* trend and a slot of several prices whose mass is the mass of the trends
C15_Witness ==
  /\ pc = "estimates"
  /\ Len(prediction.trends) > 1
  /\ \E t \in 3..14 :
       /\ Len(prediction.estimates[t]) > 1
       /\ Sum(prediction.estimates[t]) = Sum(prediction.trends)
  /\ Sum(prediction.trends) # 1

\* ---------------------------------------------------------------------------
\* Phase lengths and subscripts of the grid cells, under BuilderSpec

\* the subscripts a builder applies, in the turn `cell`, to the arrays it is
\* handed and to min_randoms and max_randoms, each paired with the length of
\* the array it is applied to; subscripts count from 0 as in the source
\* (lines 393-394 and 426-427, 469-470 and 488-490, 512-513, 544-545 and 591-592)
Subscripts(cell) ==
  CASE cell.pattern = 0 ->
         LET dec_phase_1_len == cell.dec_phase_1_len
             dec_phase_2_len == 5 - cell.dec_phase_1_len
             length1 == Len(ZeroRates(dec_phase_1_len))
             length2 == Len(ZeroRates(dec_phase_2_len))
         IN {<<length1, j>> : j \in 0..(dec_phase_1_len - 1)}
            \cup {<<length2, j>> : j \in 0..(dec_phase_2_len - 1)}
    [] cell.pattern = 1 ->
         LET length == Len(OneRates(cell.peak_start))
         IN {<<length, i - 2>> : i \in 2..(cell.peak_start - 1)}
            \cup {<<Len(min_randoms), i - cell.peak_start>> : i \in cell.peak_start..13}
            \cup {<<Len(max_randoms), i - cell.peak_start>> : i \in cell.peak_start..13}
    [] cell.pattern = 2 ->
         LET length == Len(TwoRates)
         IN {<<length, i - 2>> : i \in 2..13}
    [] cell.pattern = 3 ->
         LET length1 == Len(ThreeRates(cell.peak_start - 2))
             length2 == Len(ThreeRates(9 - cell.peak_start))
         IN {<<length1, i - 2>> : i \in 2..(cell.peak_start - 1)}
            \cup {<<length2, i - (cell.peak_start + 5)>> : i \in (cell.peak_start + 5)..13}

\* C16: for every grid cell of the four enumerators the phase lengths cover
\* exactly the slots 2..13: no builder call ends in the error "Phase lengths
\* don't add up", on a sheet with no known sell price (where no slot rejects, so
\* that every phase is walked) every cell is accepted, every subscript applied
\* to a rate chain or to min_randoms / max_randoms lies within its array, and
\* every accepted branch has exactly 14 slot distributions.
C16_PhasesCoverTheWeek ==
  pc = "built" =>
    /\ ~IsThrown(result)
    /\ AllUnknown => IsPrediction(result)
    /\ \A use \in Subscripts(call) : 0 <= use[2] /\ use[2] < use[1]
    /\ IsPrediction(result) => Len(result.estimates) = 14

\* a Random cell whose third high phase takes all seven high slots is built on
\* a sheet with no known sell price: all five phases are passed, the second
\* high phase with length 0, and the branch has 14 slots
C16_Witness ==
  /\ Built /\ AllUnknown
  /\ call.pattern = 0 /\ call.high_phase_1_len = 0 /\ call.high_phase_3_len = 6
  /\ Len(result.estimates) = 14
  /\ Subscripts(call) # {}

\* a Small Spike cell whose peak starts at slot 9 is handed an empty second
\* chain and applies no subscript to it
C16_WitnessEmptyChain ==
  /\ Built /\ AllUnknown
  /\ call.pattern = 3 /\ call.peak_start = 9
  /\ ThreeRates(9 - call.peak_start) = <<>>
  /\ Len(result.estimates) = 14

====
